---- MODULE Spec2Model ----
(***************************************************************************)
(* Book catalog (books/models.py): the Book record, its save hook and the  *)
(* Open Library enrichment routine fetch_book_data_from_openlibrary.       *)
(*                                                                         *)
(* Every network request is one step; the external API answers each        *)
(* request with any outcome (transport error, non-200 status, malformed    *)
(* body, or a JSON document of any content).  A response dictionary is     *)
(* read at most once per key by the code, so the model draws the value of  *)
(* a key at the step that reads it.                                        *)
(*                                                                         *)
(* Strings are TLA+ strings; "" stands for the empty string and for None   *)
(* (the code tests truthiness only).  external_id is a tuple of characters *)
(* so that its classification can be computed; <<>> is the empty id.       *)
(* publication_year 0 stands for None and for 0 (both falsy).              *)
(***************************************************************************)
EXTENDS Integers, Sequences, FiniteSets, TLC

VARIABLES
    book,          \* the in-memory Book instance (self)
    db,            \* the row written by super().save(), NoRow before
    pc,            \* position of the running handler
    caller,        \* who called the resolver: "save", "admin" or "none"
    depth,         \* number of active fetch_book_data_from_openlibrary frames
    ret,           \* value returned by the last top-level resolver call
    work_data,     \* local work_data: "none", or the lookup it came from ("linked",
                   \* "direct", "raw"), or "dict" once the merge reads it
    edition_data,  \* local edition_data is a non-empty dict
    author_keys,   \* local author_keys
    authors,       \* local authors (names fetched so far)
    author_idx,    \* position of the loop over author_keys[:3]
    pre,           \* history: the record when the top-level resolver call began
    entry,         \* history: the record when the innermost resolver call began
    log,           \* history: requests issued by the innermost resolver call
    searches,      \* history: search requests issued since the top-level call began
    inp,           \* history: the last step, whether its request yielded a document,
                   \* whether it raised into the outer handler
    fresh,         \* no handler has run on the record yet
    shown,         \* value returned by the last get_cover_url call
    favorites,     \* the stored Favorite rows
    procs,         \* the favorite-toggle requests in flight, by worker
    catalog,       \* the stored books of the API: id -> number of updates
    response,      \* the answer to the last request made to the book API
    started,       \* number of favorite-toggle requests begun so far
    last           \* the favorite-toggle request that finished last

vars == <<book, db, pc, caller, depth, ret, work_data, edition_data,
          author_keys, authors, author_idx, pre, entry, log, searches,
          inp, fresh, shown, favorites, procs, catalog, response, started,
          last>>

locals == <<work_data, edition_data, author_keys, authors, author_idx>>

\* The state of one Book instance and of the resolver running on it.
record == <<book, db, pc, caller, depth, ret, work_data, edition_data,
            author_keys, authors, author_idx, pre, entry, log, searches,
            inp, fresh, shown>>

\* The state of the favorites and of the book API.
web == <<favorites, procs, catalog, response, started, last>>

-----------------------------------------------------------------------------
(* Bounds of the model. *)

\* Python's recursion limit, scaled down: a call at this depth raises
\* RecursionError, which the caller's "except Exception" turns into False.
RecursionLimit == 2

-----------------------------------------------------------------------------
(* Sentinel defaults applied by save. *)

SinTitulo == "Sin título"
AutorDesconocido == "Autor desconocido"
SinDescripcion == "Sin descripción disponible"
General == "General"
DefaultYear == 2000

\* No row has been written yet.
NoRow == [title |-> "<no row>"]

-----------------------------------------------------------------------------
(* Python helpers. *)

\* str.upper() on one character.
Upper(c) ==
    CASE c = "m" -> "M"
      [] c = "w" -> "W"
      [] c = "o" -> "O"
      [] c = "l" -> "L"
      [] OTHER -> c

\* c in s.upper()
InUpper(c, s) == \E i \in 1..Len(s) : Upper(s[i]) = c

\* ", ".join(xs)
RECURSIVE Join(_)
Join(xs) ==
    IF Len(xs) = 0 THEN ""
    ELSE IF Len(xs) = 1 THEN xs[1]
    ELSE xs[1] \o ", " \o Join(Tail(xs))

\* A slice that takes one element more (faulty variant of Prefix).
PrefixOneMore(xs, n) == SubSeq(xs, 1, IF Len(xs) < n + 1 THEN Len(xs) ELSE n + 1)

\* A slice that cuts nothing (faulty variant of Prefix).
PrefixAll(xs, n) == xs

\* xs[:n]
Prefix(xs, n) == SubSeq(xs, 1, IF Len(xs) < n THEN Len(xs) ELSE n)

\* f"https://covers.openlibrary.org/b/id/{cover_id}-L.jpg"
CoverUrl(cover_id) ==
    "https://covers.openlibrary.org/b/id/" \o ToString(cover_id) \o "-L.jpg"

\* A filter that keeps every cover id (faulty variant of valid_covers).
all_covers(covers) == covers

\* [c for c in covers if c and c > 0]
valid_covers(covers) == SelectSeq(covers, LAMBDA c : c > 0)

-----------------------------------------------------------------------------
(* Records the program can start from. *)

Titles == {"", SinTitulo, "My title"}
Authors == {"", AutorDesconocido, "My author"}
Descriptions == {"", SinDescripcion, "My description"}
Categories == {"", General, "My category"}
Years == {0, DefaultYear, 1984}
ExternalIds ==
    { <<>>,
      <<"O", "L", "1", "M">>,      \* edition id
      <<"O", "L", "1", "W">>,      \* work id
      <<"O", "L", "W", "1", "M">>, \* holds both letters
      <<"1", "2", "3">> }          \* holds neither letter
CoverUrls == {"", "http://example.org/my-cover.jpg"}

Books ==
    [title : Titles, author : Authors, description : Descriptions,
     category : Categories, publication_year : Years,
     external_id : ExternalIds, cover_url : CoverUrls]

-----------------------------------------------------------------------------
(* What the external API can answer. *)

\* A request ends in a transport error (or timeout), a non-200 status, a body
\* that is not JSON, or a 200 with a JSON document.
Outcomes == {"error", "non200", "badjson", "ok"}

\* A lookup of one document can also answer 200 with an empty JSON object,
\* which the code's truthiness tests take for no data.
LookupOutcomes == Outcomes \cup {"empty"}

\* is_edition / is_work (models.py 103-104)
is_edition(external_id) == InUpper("M", external_id)
is_work(external_id) == InUpper("W", external_id)

\* s.replace(old, "") on character tuples
RECURSIVE RemoveAll(_, _)
RemoveAll(s, old) ==
    IF Len(s) < Len(old) THEN s
    ELSE IF SubSeq(s, 1, Len(old)) = old
         THEN RemoveAll(SubSeq(s, Len(old) + 1, Len(s)), old)
         ELSE <<s[1]>> \o RemoveAll(Tail(s), old)

\* The identifier as given, not reformatted (faulty variant of WorkUrlId).
RawId(external_id) == external_id

\* OL{clean_id}M of line 112-113 and OL{clean_id}W of line 137-138
EditionUrlId(external_id) ==
    <<"O", "L">> \o RemoveAll(RemoveAll(external_id, <<"O", "L">>), <<"M">>) \o <<"M">>
WorkUrlId(external_id) ==
    <<"O", "L">> \o RemoveAll(RemoveAll(external_id, <<"O", "L">>), <<"W">>) \o <<"W">>

\* One entry of the request log: the kind of request and the identifier in
\* its URL (<<>> where the model does not follow it).
Req(kind, id) == [req |-> kind, id |-> id]

\* The required fields of a record that are empty or at their sentinel.
FillableFields(b) ==
    {f \in {"title", "author", "description", "category"} :
        b[f] = "" \/ b[f] \in {SinTitulo, AutorDesconocido, SinDescripcion, General}}
    \cup (IF b.publication_year \in {0, DefaultYear} THEN {"publication_year"} ELSE {})

\* The merge treats each field on its own, so the records the model starts
\* from have no field to fill or exactly one (empty or at its sentinel), or
\* are records no request can be issued for (no identifier, no real title).
FillPatterns ==
    { {} } \cup { {f} : f \in {"title", "author", "description", "category",
                                "publication_year"} }

\* A record of a work whose description, year and cover are all to be
\* filled: each of the three can request the editions listing.
ListingBook ==
    [title |-> "My title", author |-> "My author", description |-> "",
     category |-> "My category", publication_year |-> 0,
     external_id |-> <<"O", "L", "1", "W">>, cover_url |-> ""]

InitBooks ==
    {b \in Books :
        \/ b.external_id = <<>> /\ b.title \in {"", SinTitulo}
        \/ FillableFields(b) \in FillPatterns
        \/ b = ListingBook}

\* "not x or x == sentinel": the field may be filled by the merge.
Fillable(value, sentinel) == value = "" \/ value = sentinel

\* if self.title and self.title != "Sin título" (line 376)
HasRealTitle(b) == b.title # "" /\ b.title # SinTitulo

-----------------------------------------------------------------------------
(* Initial state: any record, built in memory and not yet written. *)

\* What a step leaves in inp: its name, whether its request yielded a document,
\* and whether it raised into the handler of line 424.
Step(name, ok, exc) == [step |-> name, ok |-> ok, exc |-> exc]

NoInput == Step("none", TRUE, FALSE)

\* A step together with the documents its requests and reads gave it.
StepOn(name, ok, exc, given) ==
    [step |-> name, ok |-> ok, exc |-> exc, given |-> given]

\* What a get_cover_url call gave back and how many requests it issued.
Shown(value, requests) == [value |-> value, requests |-> requests]

\* get_cover_url has not been called since the last handler began.
NotCalled == Shown("<not called>", 0)

\* Python's None as a return value.
None == "<None>"

\* The callers of the web layer: an anonymous visitor, a registered user and
\* an administrator (is_staff).
Users == {"anon", "ana", "root"}
is_authenticated(u) == u # "anon"
is_staff(u) == u = "root"

\* The server's workers, each serving one request at a time.
Workers == 1..2

\* The most favorite-toggle requests of a behaviour of the favorites alone
\* and of a behaviour of the whole book API, the most books of the catalog
\* and the most updates of one book.
MaxStarted == 3
MaxApiToggles == 2
MaxBooks == 2
MaxUpdates == 1

\* The book ids a request can name: those a book can have and one more.
RequestIds == 1..(MaxBooks + 1)

\* A Favorite row (models.py lines 488-500): its primary key, user and book.
Row(id, u, b) == [id |-> id, user |-> u, book |-> b]

\* The (user, book) pairs of a set of rows.
Pairs(rows) == {<<r.user, r.book>> : r \in rows}

\* A set standing for "no set recorded".
NoSet == {<<"none", 0>>}

\* A worker with no request in hand.
IdleWorker ==
    [pc |-> "idle", via |-> "none", user |-> "none", book |-> 0, n |-> 0,
     row |-> 0, clean |-> TRUE, before |-> NoSet, orig |-> NoSet]

\* An answer of the web layer: the entry point, the action, the caller, the
\* wording of the outcome and the HTTP status.
Answer(via, action, u, status, code) ==
    [via |-> via, action |-> action, user |-> u, status |-> status,
     code |-> code]

NoAnswer == Answer("none", "none", "none", "none", 0)

\* No favorite-toggle request has finished.
NoLast ==
    [user |-> "none", book |-> 0, before |-> NoSet, orig |-> NoSet,
     clean |-> FALSE]

\* The book API and the favorites at rest: two books, no favorite.
WebAtRest ==
    /\ favorites = {}
    /\ procs = [p \in Workers |-> IdleWorker]
    /\ catalog = [id \in 1..2 |-> 0]
    /\ response = NoAnswer
    /\ started = 0
    /\ last = NoLast

\* The record and its resolver at rest, on a record of the given set.
RecordAtRest(books) ==
    /\ book \in books
    /\ db = NoRow
    /\ pc = "idle"
    /\ caller = "none"
    /\ depth = 0
    /\ ret = FALSE
    /\ work_data = "none"
    /\ edition_data = FALSE
    /\ author_keys = <<>>
    /\ authors = <<>>
    /\ author_idx = 0
    /\ pre = book
    /\ entry = book
    /\ log = <<>>
    /\ searches = 0
    /\ inp = NoInput
    /\ fresh = TRUE
    /\ shown = NotCalled

Init ==
    /\ RecordAtRest(InitBooks)
    /\ WebAtRest

\* The locals of a frame that does not exist (before a call, after a return).
NoLocals ==
    /\ work_data' = "none"
    /\ edition_data' = FALSE
    /\ author_keys' = <<>>
    /\ authors' = <<>>
    /\ author_idx' = 0

\* A test that forgets the year (faulty variant of needs_fetch).
needs_fetch_no_year(b) ==
    \/ b.title = ""
    \/ b.author = ""
    \/ b.description = ""
    \/ b.category = ""

\* A test that also counts the sentinels as missing (faulty variant of
\* needs_fetch).
needs_fetch_or_sentinel(b) ==
    \/ b.title \in {"", SinTitulo}
    \/ b.author \in {"", AutorDesconocido}
    \/ b.description \in {"", SinDescripcion}
    \/ b.category \in {"", General}
    \/ b.publication_year \in {0, DefaultYear}

\* needs_fetch of save (lines 437-443)
needs_fetch(b) ==
    \/ b.title = ""
    \/ b.author = ""
    \/ b.description = ""
    \/ b.category = ""
    \/ b.publication_year = 0

\* A top-level call of fetch_book_data_from_openlibrary by `who`.
CallResolver(who) ==
    /\ pc' = "resolve"
    /\ caller' = who
    /\ depth' = 1
    /\ pre' = book
    /\ searches' = 0
    /\ UNCHANGED <<book, db, ret, locals, entry, log>>

\* save(), lines 434-446: call the resolver or go on to the defaults.
StartSave ==
    IF book.external_id # <<>> /\ needs_fetch(book)
    THEN CallResolver("save")
    ELSE /\ pc' = "finalize"
         /\ caller' = "save"
         /\ UNCHANGED <<book, db, depth, ret, locals, pre, entry, log, searches>>

\* book.save() called by a view, a form or the admin.
SaveBegin ==
    /\ pc = "idle"
    /\ fresh' = FALSE
    /\ shown' = NotCalled
    /\ UNCHANGED web
    /\ inp' = Step("save", TRUE, FALSE)
    /\ StartSave

\* The admin action fetch_data_from_openlibrary, line 53: the resolver is
\* called on the record as it is.  The model runs it on the records of Init
\* only (they include every shape a stored record can have).
AdminBegin ==
    /\ pc = "idle"
    /\ fresh
    /\ fresh' = FALSE
    /\ shown' = NotCalled
    /\ UNCHANGED web
    /\ inp' = Step("admin", TRUE, FALSE)
    /\ CallResolver("admin")

\* A return of the top-level call (every frame below it returns the same
\* value, line 418): control goes back to the caller.
Return(value) ==
    /\ ret' = value
    /\ depth' = 0
    /\ pc' = IF caller = "save" THEN "finalize" ELSE "admin_return"
    /\ NoLocals
    /\ UNCHANGED <<db, caller, pre>>

\* Line 422: nothing was found.
ReturnFalse == Return(FALSE)

\* A completed merge that reports failure (faulty variant of ReturnTrue).
ReturnTrueAsFalse == Return(FALSE)

\* Lines 373 and 420: the data was found and applied.
ReturnTrue == Return(TRUE)

\* A handler that lets the exception through to the caller (faulty variant of
\* OuterExcept).
OuterReraise ==
    /\ pc' = "raised"
    /\ depth' = 0
    /\ NoLocals
    /\ UNCHANGED <<db, caller, ret, pre>>

\* Lines 424-427: the outer handler turns any exception into False.
OuterExcept == Return(FALSE)

\* Control stays in the running call.
Goto(label) ==
    /\ pc' = label
    /\ UNCHANGED <<db, caller, depth, ret, pre>>

\* Where control goes at line 154 when work_data is empty: line 376.
NoWorkData ==
    IF HasRealTitle(book)
    THEN /\ Goto("fetch_search")
         /\ work_data' = "none"
         /\ UNCHANGED <<edition_data, author_keys, authors, author_idx>>
    ELSE ReturnFalse

\* Entry of a call, lines 96-109 and 134: classify the identifier.
Enter ==
    /\ pc = "resolve"
    /\ UNCHANGED <<fresh, shown, web>>
    /\ entry' = book
    /\ log' = <<>>
    /\ inp' = Step("enter", TRUE, FALSE)
    /\ UNCHANGED <<book, searches>>
    /\ IF book.external_id # <<>>
       THEN /\ Goto(IF is_edition(book.external_id)
                    THEN "fetch_edition" ELSE "fetch_work_direct")
            /\ NoLocals
       ELSE NoWorkData

\* What edition_data.get('works') holds: nothing, a work key, or something
\* that is no list of dicts (AttributeError, caught at line 130).
WorksLinks == {"none", "key", "malformed"}

\* Lines 110-124 and 130-131: the edition request.
FetchEdition ==
    /\ pc = "fetch_edition"
    /\ UNCHANGED <<fresh, shown, web>>
    /\ \E r \in LookupOutcomes, works \in WorksLinks :
        /\ r # "ok" => works = "none"
        /\ inp' = Step("edition", (r = "ok"), FALSE)
        /\ log' = Append(log, Req("edition", EditionUrlId(book.external_id)))
        /\ edition_data' = (r = "ok")
        /\ Goto(IF r = "ok" /\ works = "key"
                THEN "fetch_linked_work" ELSE "fetch_work_direct")
    /\ UNCHANGED <<book, work_data, author_keys, authors, author_idx, entry,
                   searches>>

\* Lines 125-131: the work the edition links to; then line 134.
FetchLinkedWork ==
    /\ pc = "fetch_linked_work"
    /\ UNCHANGED <<fresh, shown, web>>
    /\ \E r \in LookupOutcomes :
        /\ inp' = Step("linked_work", (r = "ok"), FALSE)
        /\ log' = Append(log, Req("linked_work", <<>>))
        /\ work_data' = IF r = "ok" THEN "linked" ELSE "none"
        /\ Goto(IF is_work(book.external_id) \/ r # "ok"
                THEN "fetch_work_direct" ELSE "merge")
    /\ UNCHANGED <<book, edition_data, author_keys, authors, author_idx,
                   entry, searches>>

\* A lookup that is never taken to have raised (faulty variant of
\* LookupRaises).
LookupNeverRaises(r) == FALSE

\* Lines 140-142 and 147-149: requests.get, raise_for_status or json raises
\* before work_data is assigned.
LookupRaises(r) == r \in {"error", "non200", "badjson"}

\* Lines 135-143 and 154: the work under the reformatted identifier
\* OL{clean_id}W.  A 200 answer replaces work_data whatever it holds.
FetchWorkDirect ==
    /\ pc = "fetch_work_direct"
    /\ UNCHANGED <<fresh, shown, web>>
    /\ \E r \in LookupOutcomes :
        /\ inp' = StepOn("work_direct", (r = "ok"), FALSE, r)
        /\ log' = Append(log, Req("work_direct", WorkUrlId(book.external_id)))
        /\ UNCHANGED <<book, entry, searches>>
        /\ CASE r = "ok" ->
                  /\ work_data' = "direct"
                  /\ Goto("merge")
                  /\ UNCHANGED <<edition_data, author_keys, authors, author_idx>>
             [] r = "empty" -> NoWorkData
             [] OTHER ->
                  /\ Goto("fetch_work_raw")
                  /\ UNCHANGED locals

\* Lines 144-154: the work under the identifier as given; then line 154.
FetchWorkRaw ==
    /\ pc = "fetch_work_raw"
    /\ UNCHANGED <<fresh, shown, web>>
    /\ \E r \in LookupOutcomes :
        /\ inp' = StepOn("work_raw", (r = "ok"), FALSE, r)
        /\ log' = Append(log, Req("work_raw", book.external_id))
        /\ UNCHANGED <<book, entry, searches>>
        /\ CASE r = "ok" ->
                  /\ work_data' = "raw"
                  /\ Goto("merge")
                  /\ UNCHANGED <<edition_data, author_keys, authors, author_idx>>
             [] LookupRaises(r) /\ work_data # "none" ->
                  /\ Goto("merge")
                  /\ UNCHANGED locals
             [] OTHER -> NoWorkData

-----------------------------------------------------------------------------
(* The merge, lines 154-373. *)

\* work_data["authors"]: a positive number k is a reference holding the key
\* of author k; 0 is a reference without "author" or with an empty key;
\* -1 is a reference whose "author" is no dictionary (line 172 raises).
WorkAuthorRefs ==
    { <<>>, <<1, 2, 0, 3, 4>>, <<1, -1>> }

\* The name the API holds for author k.
AuthorName(k) == "Author" \o ToString(k)

\* Lines 169-174: the keys of the well-formed references.
KeysOf(refs) == SelectSeq(refs, LAMBDA k : k > 0)

\* A test that finds every title open to the merge (faulty variant of
\* TitleFillable).
AnyTitleFillable(title) == TRUE

\* Line 163: not self.title or self.title == "" or self.title == "Sin título".
TitleFillable(title) == Fillable(title, SinTitulo)

\* Line 164: work title, else edition title, else the sentinel.
MergedTitle(wtitle, etitle) ==
    IF wtitle # "" THEN wtitle
    ELSE IF etitle # "" THEN etitle
    ELSE SinTitulo

\* Lines 154-175: debug prints, title, author keys.
MergeBegin ==
    /\ pc = "merge"
    /\ UNCHANGED <<fresh, shown, web>>
    /\ \E shape \in {"dict", "malformed"},
          wtitle \in {"", "Work title"},
          etitle \in {"", "Edition title"},
          refs \in WorkAuthorRefs :
        /\ shape = "malformed" => wtitle = "" /\ etitle = "" /\ refs = <<>>
        /\ ~TitleFillable(book.title) => wtitle = "" /\ etitle = ""
        /\ ~edition_data => etitle = ""
        /\ inp' = Step("merge", TRUE,
                        shape = "malformed" \/ \E i \in 1..Len(refs) : refs[i] = -1)
        /\ UNCHANGED <<entry, log, searches>>
        /\ IF shape = "malformed"
           THEN \* lines 157-160 raise
                /\ UNCHANGED book
                /\ OuterExcept
           ELSE /\ book' = IF TitleFillable(book.title)
                           THEN [book EXCEPT !.title = MergedTitle(wtitle, etitle)]
                           ELSE book
                /\ IF \E i \in 1..Len(refs) : refs[i] = -1
                   THEN OuterExcept
                   ELSE /\ author_keys' = KeysOf(refs)
                        /\ authors' = <<>>
                        /\ author_idx' = 1
                        \* from here on only the content of work_data matters
                        /\ work_data' = "dict"
                        /\ UNCHANGED edition_data
                        /\ Goto(IF KeysOf(refs) # <<>>
                                THEN "fetch_author" ELSE "merge_description")

\* What an author document holds under "name".
AuthorOutcomes == Outcomes \cup {"noname"}

\* Lines 177-187: one turn of the loop over author_keys[:3].
FetchAuthor ==
    /\ pc = "fetch_author"
    /\ UNCHANGED <<fresh, shown, web>>
    /\ \E r \in AuthorOutcomes :
        /\ inp' = Step("author", (r = "ok"), FALSE)
        /\ log' = Append(log, Req("author", <<>>))
        /\ authors' = IF r = "ok"
                      THEN Append(authors, AuthorName(author_keys[author_idx]))
                      ELSE authors
        /\ author_idx' = author_idx + 1
        /\ Goto(IF author_idx < Len(Prefix(author_keys, 3))
                THEN "fetch_author" ELSE "merge_description")
    /\ UNCHANGED <<book, work_data, edition_data, author_keys, entry, searches>>

\* A "description" or "notes" value: absent (or falsy), a string, a
\* dictionary with a "value" key, or a dictionary without one.
Shapes(text) ==
    { [kind |-> "absent", value |-> ""],
      [kind |-> "str", value |-> text],
      [kind |-> "dict", value |-> text],
      [kind |-> "dict", value |-> ""],
      [kind |-> "dict_novalue", value |-> ""] }

Absent == [kind |-> "absent", value |-> ""]

\* A merge that never reads the work description (faulty variant of
\* FromWorkDescription).
IgnoreWorkDescription(current, description) == current

\* Lines 195-204: the work description, taken if truthy.
FromWorkDescription(current, description) ==
    IF description.kind \in {"str", "dict"} /\ description.value # ""
    THEN description.value
    ELSE current

\* Lines 210-215 and 227-232: ed_desc.get("value", self.description) or ed_desc.
FromEditionDescription(current, ed_desc) ==
    CASE ed_desc.kind = "str" -> ed_desc.value
      [] ed_desc.kind = "dict" -> ed_desc.value
      [] OTHER -> current

\* Line 189-190.
MergedAuthor(current, names) ==
    IF names # <<>> /\ Fillable(current, AutorDesconocido)
    THEN Join(names)
    ELSE current

\* Lines 189-216: author, then description from the work and the edition.
MergeDescription ==
    /\ pc = "merge_description"
    /\ UNCHANGED <<fresh, shown, web>>
    /\ \E description \in Shapes("Work description"),
          ed_desc \in Shapes("Edition description") :
        LET d1 == IF Fillable(book.description, SinDescripcion)
                  THEN FromWorkDescription(book.description, description)
                  ELSE book.description
            d2 == IF Fillable(d1, SinDescripcion) /\ edition_data
                  THEN FromEditionDescription(d1, ed_desc)
                  ELSE d1
        IN  /\ ~Fillable(book.description, SinDescripcion) => description = Absent
            /\ ~(Fillable(d1, SinDescripcion) /\ edition_data) => ed_desc = Absent
            \* ok: the work description supplied the value
            /\ inp' = Step("description",
                           /\ description.kind \in {"str", "dict"}
                           /\ description.value # "",
                           FALSE)
            /\ book' = [book EXCEPT !.author = MergedAuthor(book.author, authors),
                                    !.description = d2]
            /\ Goto(IF Fillable(d1, SinDescripcion) /\ ~edition_data
                    THEN "fetch_listing_desc" ELSE "merge_category")
    \* author_keys and authors are not read after line 191
    /\ author_keys' = <<>>
    /\ authors' = <<>>
    /\ author_idx' = 0
    /\ UNCHANGED <<work_data, edition_data, entry, log, searches>>

\* Lines 226-238: description of the first listed edition, else its notes.
FromFirstEdition(current, ed_desc, notes) ==
    IF ed_desc.kind # "absent"
    THEN FromEditionDescription(current, ed_desc)
    ELSE CASE notes.kind = "dict" -> notes.value
           [] notes.kind = "str" -> notes.value
           [] OTHER -> current

\* Lines 218-240: the editions listing with limit 1.
FetchListingDesc ==
    /\ pc = "fetch_listing_desc"
    /\ UNCHANGED <<fresh, shown, web>>
    /\ \E r \in Outcomes, entries \in 0..1,
          ed_desc \in Shapes("Listing description"),
          notes \in Shapes("Listing notes") \cup {[kind |-> "str", value |-> ""]} :
        /\ r # "ok" => entries = 0
        /\ entries = 0 => ed_desc = Absent /\ notes = Absent
        /\ ed_desc # Absent => notes = Absent
        /\ inp' = Step("listing_desc", (r = "ok"), FALSE)
        /\ log' = Append(log, Req("listing_limit_1", <<>>))
        /\ book' = IF entries = 1
                   THEN [book EXCEPT !.description =
                            FromFirstEdition(book.description, ed_desc, notes)]
                   ELSE book
        /\ Goto("merge_category")
    /\ UNCHANGED <<locals, entry, searches>>

\* An element that is no string: ", ".join raises TypeError on it.
NotAString == "<not a string>"

\* Subject lists the API can hold under a key.
SubjectLists(name) ==
    { <<>>, <<name \o " 1">>, <<name \o " 1", name \o " 2", name \o " 3">> }

\* ", ".join(subjects[:2]) raises on a non-string element.
JoinRaises(xs) == \E i \in 1..Len(Prefix(xs, 2)) : xs[i] = NotAString

\* A publish_date is a tuple of characters: a digit is its value, any other
\* character is -1.
IsDigit(c) == c \in 0..9

\* re.search(r'\d{4}', pub_date): the position of the first run of 4 digits,
\* 0 if there is none.
YearMatch(pub_date) ==
    LET hits == { i \in 1..(Len(pub_date) - 3) :
                    \A j \in 0..3 : IsDigit(pub_date[i + j]) }
    IN  IF hits = {} THEN 0
        ELSE CHOOSE i \in hits : \A k \in hits : i <= k

\* int(year_match.group())
YearOf(pub_date) ==
    LET i == YearMatch(pub_date)
    IN  1000 * pub_date[i] + 100 * pub_date[i + 1] + 10 * pub_date[i + 2]
        + pub_date[i + 3]

\* "if not self.publication_year or self.publication_year == 2000"
YearFillable(year) == year = 0 \/ year = DefaultYear

\* publish_date values of an edition: none, "n.d.", "1999", "c2000", "0000".
PubDates ==
    { <<>>, <<-1, -1, -1, -1>>, <<1, 9, 9, 9>>, <<-1, 2, 0, 0, 0>>,
      <<0, 0, 0, 0>> }

\* Lines 265-270: the year of the edition's publish_date.
FromEditionDate(current, pub_date) ==
    IF pub_date # <<>> /\ YearMatch(pub_date) # 0
    THEN YearOf(pub_date)
    ELSE current

\* A category that never reads the edition (faulty variant of
\* MergedCategory).
CategoryWithoutEdition(current, wsubjects, esubjects, places, has_edition) ==
    IF wsubjects # <<>> THEN Join(Prefix(wsubjects, 2))
    ELSE IF places # <<>> THEN Join(Prefix(places, 2))
    ELSE current

\* Lines 244-258: work subjects, else edition subjects, else subject_places.
MergedCategory(current, wsubjects, esubjects, places, has_edition) ==
    LET subjects == IF wsubjects = <<>> /\ has_edition THEN esubjects
                    ELSE wsubjects
    IN  IF subjects # <<>> THEN Join(Prefix(subjects, 2))
        ELSE IF places # <<>> THEN Join(Prefix(places, 2))
        ELSE current

\* Lines 243-273: category, then the year from the edition.
MergeCategory ==
    /\ pc = "merge_category"
    /\ UNCHANGED <<fresh, shown, web>>
    /\ \E wsubjects \in SubjectLists("Work subject") \cup {<<NotAString>>},
          esubjects \in SubjectLists("Edition subject"),
          places \in SubjectLists("Work place"),
          pub_date \in PubDates :
        LET fill == Fillable(book.category, General)
            subjects == IF wsubjects = <<>> /\ edition_data THEN esubjects
                        ELSE wsubjects
            year == IF YearFillable(book.publication_year) /\ edition_data
                    THEN FromEditionDate(book.publication_year, pub_date)
                    ELSE book.publication_year
        IN  /\ ~fill => wsubjects = <<>> /\ esubjects = <<>> /\ places = <<>>
            /\ ~(wsubjects = <<>> /\ edition_data) => esubjects = <<>>
            /\ subjects # <<>> => places = <<>>
            /\ ~(YearFillable(book.publication_year) /\ edition_data)
                  => pub_date = <<>>
            /\ fill /\ JoinRaises(subjects) => pub_date = <<>>
            \* ok: the edition's publish_date holds a year
            /\ inp' = StepOn("category",
                             pub_date # <<>> /\ YearMatch(pub_date) # 0,
                             fill /\ JoinRaises(subjects),
                             [subjects |-> wsubjects, edition_subjects |-> esubjects,
                              subject_places |-> places])
            /\ UNCHANGED <<entry, log, searches>>
            /\ IF fill /\ JoinRaises(subjects)
               THEN \* line 251 raises
                    /\ UNCHANGED book
                    /\ OuterExcept
               ELSE /\ book' = [book EXCEPT
                            !.category = IF fill
                                         THEN MergedCategory(book.category, wsubjects,
                                                  esubjects, places, edition_data)
                                         ELSE book.category,
                            !.publication_year = year]
                    /\ Goto(IF YearFillable(year)
                            THEN "fetch_listing_year" ELSE "merge_cover")
                    /\ UNCHANGED locals

\* publish_date values of the entries of an editions listing (limit 50):
\* no entry; "1850"; "c19999" then "1850"; no date then "c19999"; "0000".
ListingDates ==
    { <<>>,
      << <<1, 8, 5, 0>> >>,
      << <<-1, 1, 9, 9, 9, 9>>, <<1, 8, 5, 0>> >>,
      << <<>>, <<-1, 1, 9, 9, 9, 9>> >>,
      << <<0, 0, 0, 0>> >> }

\* Lines 289-297: the oldest year over the entries, 0 for None.
RECURSIVE OldestYear(_, _)
OldestYear(dates, oldest_year) ==
    IF dates = <<>> THEN oldest_year
    ELSE LET pub_date == Head(dates)
             year == YearOf(pub_date)
         IN  IF pub_date # <<>> /\ YearMatch(pub_date) # 0
                /\ (oldest_year = -1 \/ year < oldest_year)
             THEN OldestYear(Tail(dates), year)
             ELSE OldestYear(Tail(dates), oldest_year)

\* Lines 274-303: the editions listing with limit 50, for the year.
FetchListingYear ==
    /\ pc = "fetch_listing_year"
    /\ UNCHANGED <<fresh, shown, web>>
    /\ \E r \in Outcomes, dates \in ListingDates :
        /\ r # "ok" => dates = <<>>
        /\ inp' = Step("listing_year", (r = "ok"), FALSE)
        /\ log' = Append(log, Req("listing_limit_50", <<>>))
        /\ book' = IF OldestYear(dates, -1) > 0
                   THEN [book EXCEPT !.publication_year = OldestYear(dates, -1)]
                   ELSE book
        /\ Goto("merge_cover")
    /\ UNCHANGED <<locals, entry, searches>>

\* "covers" of the fetched edition and of the work.
EditionCovers == { <<>>, <<0, -1>>, <<-1, 111, 112>> }
WorkCovers == { <<>>, <<-1>>, <<0, 333>> }

\* One entry of an editions listing.
Entry(publish_date, covers) == [publish_date |-> publish_date, covers |-> covers]

\* The entries of an editions listing (limit 50), for the cover: none; one
\* without a valid cover; an older then a newer one; a newer then an older
\* one; two without a date.
ListingEntries ==
    { <<>>,
      << Entry(<<1, 8, 5, 0>>, <<0, -1>>) >>,
      << Entry(<<1, 8, 5, 0>>, <<-1, 221>>), Entry(<<-1, 2, 0, 2, 0>>, <<222>>) >>,
      << Entry(<<-1, 2, 0, 2, 0>>, <<221>>), Entry(<<1, 8, 5, 0>>, <<222>>) >>,
      << Entry(<<>>, <<221>>), Entry(<<-1, -1>>, <<222>>) >> }

\* Lines 337-352: the entries with a valid cover, with their year (0 if none).
RECURSIVE editions_with_year(_)
editions_with_year(entries) ==
    IF entries = <<>> THEN <<>>
    ELSE LET edition == Head(entries)
             pub_date == edition.publish_date
             year == IF pub_date # <<>> /\ YearMatch(pub_date) # 0
                     THEN YearOf(pub_date) ELSE 0
             valid_ed_covers == valid_covers(edition.covers)
         IN  IF valid_ed_covers # <<>>
             THEN <<[year |-> year, cover_id |-> valid_ed_covers[1]]>>
                  \o editions_with_year(Tail(entries))
             ELSE editions_with_year(Tail(entries))

\* A sort that leaves the list as it is (faulty variant of SortByYearDesc).
KeepListingOrder(xs) == xs

\* list.sort(key=year, reverse=True): stable, descending.
RECURSIVE SortByYearDesc(_)
SortByYearDesc(xs) ==
    IF xs = <<>> THEN <<>>
    ELSE LET rest == SortByYearDesc(Tail(xs))
             before == SelectSeq(rest, LAMBDA e : e.year > Head(xs).year)
             after == SelectSeq(rest, LAMBDA e : e.year <= Head(xs).year)
         IN  before \o <<Head(xs)>> \o after

\* Lines 306-318: the cover of the fetched edition.
MergeCover ==
    /\ pc = "merge_cover"
    /\ UNCHANGED <<fresh, shown, web>>
    /\ \E covers \in EditionCovers :
        /\ ~(book.cover_url = "" /\ edition_data) => covers = <<>>
        /\ inp' = Step("cover", edition_data /\ valid_covers(covers) # <<>>, FALSE)
        /\ UNCHANGED <<entry, log, searches>>
        /\ IF book.cover_url # ""
           THEN UNCHANGED book /\ ReturnTrue
           ELSE IF edition_data /\ valid_covers(covers) # <<>>
                THEN /\ book' = [book EXCEPT
                                   !.cover_url = CoverUrl(valid_covers(covers)[1])]
                     /\ ReturnTrue
                ELSE /\ UNCHANGED <<book, locals>>
                     /\ Goto("fetch_listing_cover")

\* Lines 319-373: the editions listing for the cover, else the work's cover.
FetchListingCover ==
    /\ pc = "fetch_listing_cover"
    /\ UNCHANGED <<fresh, shown, web>>
    /\ \E r \in Outcomes, entries \in ListingEntries,
          covers \in WorkCovers :
        LET sorted == SortByYearDesc(editions_with_year(entries))
        IN  /\ r # "ok" => entries = <<>>
            /\ sorted # <<>> => covers = <<>>
            /\ inp' = StepOn("listing_cover", (r = "ok"), FALSE,
                             [entries |-> entries, covers |-> covers])
            /\ log' = Append(log, Req("listing_limit_50", <<>>))
            /\ book' = IF sorted # <<>>
                       THEN [book EXCEPT !.cover_url = CoverUrl(sorted[1].cover_id)]
                       ELSE IF valid_covers(covers) # <<>>
                       THEN [book EXCEPT
                               !.cover_url = CoverUrl(valid_covers(covers)[1])]
                       ELSE book
            /\ ReturnTrue
    /\ UNCHANGED <<entry, searches>>

-----------------------------------------------------------------------------
(* The search by title, lines 376-422. *)

\* "key" of the first search result: missing, or /works/OL9W.
SearchKeys ==
    { <<>>, <<"/", "w", "o", "r", "k", "s", "/", "O", "L", "9", "W">> }

\* work_key.split("/")[-1]
RECURSIVE LastSegment(_)
LastSegment(s) ==
    IF \E i \in 1..Len(s) : s[i] = "/"
    THEN LastSegment(Tail(s))
    ELSE s

\* "author_name" of the first search result.
SearchAuthors ==
    { <<>>,
      <<"Search author 1", "Search author 2", "Search author 3", "Search author 4">>,
      <<NotAString>> }

SearchSubjects ==
    { <<>>, <<"Search subject 1", "Search subject 2", "Search subject 3">> }

\* The first search result: what docs[0] holds.  A result carries authors, a
\* year, subjects and a cover id, or none of the four.
SearchDocs ==
    { d \in [key : SearchKeys, author_name : SearchAuthors,
             first_publish_year : {0, 1950}, subject : SearchSubjects,
             cover_i : {0, 777}] :
        /\ (d.first_publish_year = 0) = (d.subject = <<>>)
        /\ (d.first_publish_year = 0) = (d.cover_i = 0)
        /\ (d.first_publish_year = 0) => (d.author_name \in {<<>>, <<NotAString>>})
        /\ (d.first_publish_year # 0) => (d.author_name \notin {<<>>, <<NotAString>>}) }

NoDoc ==
    [key |-> <<>>, author_name |-> <<>>, first_publish_year |-> 0,
     subject |-> <<>>, cover_i |-> 0]

\* Lines 391-414: the record after the first search result is applied.
ApplySearchResult(b, doc) ==
    [b EXCEPT
       !.external_id = IF doc.key # <<>> THEN LastSegment(doc.key) ELSE @,
       !.author = IF doc.author_name # <<>>
                  THEN Join(Prefix(doc.author_name, 3)) ELSE @,
       !.publication_year = IF doc.first_publish_year # 0
                            THEN doc.first_publish_year ELSE @,
       !.category = IF doc.subject # <<>> THEN Join(Prefix(doc.subject, 2)) ELSE @,
       !.cover_url = IF doc.cover_i # 0 THEN CoverUrl(doc.cover_i) ELSE @]

\* Line 397-399 raises on a name that is no string, after line 394 ran.
ApplySearchKey(b, doc) ==
    [b EXCEPT !.external_id = IF doc.key # <<>> THEN LastSegment(doc.key) ELSE @]

\* A search step that reports success whenever it did not raise, with or
\* without a result (faulty variant of AfterSearch).
AfterSearchAlwaysTrue(b, r, docs, doc) ==
    IF r = "ok" /\ docs = "doc" /\ ~JoinRaises(doc.author_name)
    THEN [book |-> ApplySearchResult(b, doc),
          exit |-> IF ApplySearchResult(b, doc).external_id # <<>>
                   THEN "recurse" ELSE "true"]
    ELSE [book |-> b, exit |-> "true"]

\* How the search step of lines 376-422 ends for the answer (r, docs, doc):
\* the record it leaves and where control goes ("false": line 422, "raise":
\* line 424, "true": line 420, "recurse": line 418).
AfterSearch(b, r, docs, doc) ==
    CASE r \in {"error", "badjson"} -> [book |-> b, exit |-> "raise"]
      [] r = "non200" -> [book |-> b, exit |-> "false"]
      [] r = "ok" /\ docs = "none" -> [book |-> b, exit |-> "false"]
      [] r = "ok" /\ docs = "malformed" -> [book |-> b, exit |-> "raise"]
      [] r = "ok" /\ docs = "doc" /\ JoinRaises(doc.author_name) ->
            [book |-> ApplySearchKey(b, doc), exit |-> "raise"]
      [] OTHER ->
            [book |-> ApplySearchResult(b, doc),
             exit |-> IF ApplySearchResult(b, doc).external_id # <<>>
                      THEN "recurse" ELSE "true"]

\* A recursive call that no recursion limit ever stops (faulty variant of
\* Recurse).
RecurseUnbounded ==
    /\ pc' = "resolve"
    /\ depth' = depth
    /\ NoLocals
    /\ UNCHANGED <<db, caller, ret, pre>>

\* Line 418: the recursive call; past the interpreter's recursion limit it
\* raises RecursionError into the handler of line 424.
Recurse ==
    IF depth < RecursionLimit
    THEN /\ pc' = "resolve"
         /\ depth' = depth + 1
         /\ NoLocals
         /\ UNCHANGED <<db, caller, ret, pre>>
    ELSE OuterExcept

\* Lines 376-422: the search request and what follows it.
FetchSearch ==
    /\ pc = "fetch_search"
    /\ UNCHANGED <<fresh, shown, web>>
    /\ \E r \in Outcomes, docs \in {"none", "doc", "malformed"}, doc \in SearchDocs :
        LET after == AfterSearch(book, r, docs, doc)
        IN  /\ r # "ok" => docs = "none"
            /\ docs # "doc" => doc = NoDoc
            /\ inp' = Step("search", r = "ok" /\ docs = "doc",
                           after.exit = "raise"
                           \/ (after.exit = "recurse" /\ depth >= RecursionLimit))
            /\ log' = Append(log, Req("search", <<>>))
            /\ searches' = searches + 1
            /\ UNCHANGED entry
            /\ book' = after.book
            /\ CASE after.exit = "raise" -> OuterExcept
                 [] after.exit = "false" -> ReturnFalse
                 [] after.exit = "true" -> ReturnTrue
                 [] OTHER -> Recurse

-----------------------------------------------------------------------------
(* The callers. *)

\* Defaults that forget the year (faulty variant of WithDefaults).
WithDefaultsNoYear(b) ==
    [b EXCEPT
       !.title = IF @ = "" THEN SinTitulo ELSE @,
       !.author = IF @ = "" THEN AutorDesconocido ELSE @,
       !.description = IF @ = "" THEN SinDescripcion ELSE @,
       !.category = IF @ = "" THEN General ELSE @]

\* Lines 453-463: the sentinel defaults.
WithDefaults(b) ==
    [b EXCEPT
       !.title = IF @ = "" THEN SinTitulo ELSE @,
       !.author = IF @ = "" THEN AutorDesconocido ELSE @,
       !.description = IF @ = "" THEN SinDescripcion ELSE @,
       !.category = IF @ = "" THEN General ELSE @,
       !.publication_year = IF @ = 0 THEN DefaultYear ELSE @]

\* Lines 448-465: the defaults, then super().save().
Finalize ==
    /\ pc = "finalize"
    /\ UNCHANGED <<fresh, shown, web>>
    /\ book' = WithDefaults(book)
    /\ db' = WithDefaults(book)
    /\ pc' = "idle"
    /\ caller' = "none"
    /\ inp' = Step("write", TRUE, FALSE)
    /\ UNCHANGED <<depth, ret, locals, pre, entry, log, searches>>

\* admin.py lines 53-55: save the record if the resolver returned True.
AdminReturn ==
    /\ pc = "admin_return"
    /\ UNCHANGED <<fresh, shown, web>>
    /\ inp' = Step("admin_return", TRUE, FALSE)
    /\ IF ret
       THEN StartSave
       ELSE /\ pc' = "idle"
            /\ caller' = "none"
            /\ UNCHANGED <<book, db, depth, ret, locals, pre, entry, log, searches>>

-----------------------------------------------------------------------------
\* Book.get_cover_url (models.py lines 56-85), called when a record is shown
\* (has_cover in admin.py line 39).

\* The answer to the title+author search, as get_cover_url reads it.
CoverDocs == {"none", "doc", "malformed"}
CoverIds == {0, 777}

\* A record that is taken to have no manual cover (faulty variant of
\* HasManualCover).
NeverManualCover(b) == FALSE

\* Line 62: if self.cover_url.
HasManualCover(b) == b.cover_url # ""

\* Lines 66-85: response.json() is read whatever the status; a request or a
\* parse that raises, or an answer of another shape, is swallowed by
\* "except Exception: pass" and None is returned; so is an answer without a
\* match, or whose top match has no cover_i.
cover_from_search(r, docs, cover_i) ==
    IF r \in {"error", "badjson"} \/ docs = "malformed" THEN None
    ELSE IF docs = "doc" /\ cover_i # 0 THEN CoverUrl(cover_i)
    ELSE None

\* Lines 61-63: a manual cover is returned at once; otherwise the search is
\* made.
GetCoverBegin ==
    /\ pc = "idle"
    /\ IF HasManualCover(book)
       THEN /\ shown' = Shown(book.cover_url, 0)
            /\ pc' = "idle"
       ELSE /\ shown' = Shown("<pending>", 0)
            /\ pc' = "cover_search"
    /\ inp' = Step("get_cover", HasManualCover(book), FALSE)
    /\ UNCHANGED <<book, db, caller, depth, ret, locals, pre, entry, log,
                   searches, fresh, web>>

\* Lines 66-85: the one search request and the value returned.
GetCoverSearch ==
    /\ pc = "cover_search"
    /\ \E r \in Outcomes, docs \in CoverDocs, cover_i \in CoverIds :
         /\ shown' = Shown(cover_from_search(r, docs, cover_i),
                           shown.requests + 1)
         /\ inp' = Step("cover_search",
                        r \in {"ok", "non200"} /\ docs = "doc" /\ cover_i # 0,
                        r \in {"error", "badjson"} \/ docs = "malformed")
    /\ pc' = "idle"
    /\ UNCHANGED <<book, db, caller, depth, ret, locals, pre, entry, log,
                   searches, fresh, web>>

-----------------------------------------------------------------------------

Next ==
    \/ SaveBegin
    \/ AdminBegin
    \/ Enter
    \/ FetchEdition
    \/ FetchLinkedWork
    \/ FetchWorkDirect
    \/ FetchWorkRaw
    \/ MergeBegin
    \/ FetchAuthor
    \/ MergeDescription
    \/ FetchListingDesc
    \/ MergeCategory
    \/ FetchListingYear
    \/ MergeCover
    \/ FetchListingCover
    \/ FetchSearch
    \/ Finalize
    \/ AdminReturn
    \/ GetCoverBegin
    \/ GetCoverSearch

Spec == Init /\ [][Next]_vars

\* The handlers are sequential code and every request returns (timeout=5 on
\* each requests.get): a step that can be taken is taken.
FairSpec == Spec /\ WF_vars(Next)

-----------------------------------------------------------------------------
\* The favorites (Favorite, models.py lines 477-515) and their two entry
\* points: BookViewSet.toggle_favorite (books/views.py lines 198-263) and
\* toggle_favorite_web (eco/views.py lines 86-106). Each request is served by
\* one worker; the workers share the database, where every statement is
\* atomic and commits on its own (no transaction.atomic around the views).
\* Favorite.objects.get_or_create is the sequence of statements SELECT,
\* INSERT and, when the INSERT breaks a constraint, SELECT again.

\* A database without the constraint (faulty variant of UniqueViolation).
NoUniqueConstraint(rows, u, b) == FALSE

\* models.py line 514, unique_together = ('user', 'book'): the database
\* refuses the INSERT of a second row for the pair.
UniqueViolation(rows, u, b) == <<u, b>> \in Pairs(rows)

\* The answer of a toggle that found the favorite (faulty variant of Removed).
RemovedAsAdded(via) ==
    IF via = "api" THEN [status |-> "added", code |-> 201]
    ELSE [status |-> "added", code |-> 302]

\* books/views.py lines 250-257: status "removed", HTTP 200; eco/views.py
\* lines 96-98 and 102-106: the warning "Libro eliminado de favoritos" and a
\* redirect.
Removed(via) ==
    IF via = "api" THEN [status |-> "removed", code |-> 200]
    ELSE [status |-> "removed", code |-> 302]

\* books/views.py lines 258-263: status "added", HTTP 201; eco/views.py lines
\* 99-106: the message "Libro agregado a favoritos" and a redirect.
Added(via) ==
    IF via = "api" THEN [status |-> "added", code |-> 201]
    ELSE [status |-> "added", code |-> 302]

\* An exception that leaves the view: the framework answers 500.
ServerError(via) == [status |-> "error", code |-> 500]

\* A permission class that lets every caller in (faulty variant of
\* permission_class).
permission_class_open(action) == "AllowAny"

\* books/views.py lines 146-156, get_permissions.
permission_class(action) ==
    IF action \in {"list", "retrieve"} THEN "AllowAny"
    ELSE IF action \in {"my_favorites", "toggle_favorite"} THEN "IsAuthenticated"
    ELSE "IsAdminUser"

\* The three permission classes named in get_permissions.
has_permission(class, u) ==
    CASE class = "AllowAny" -> TRUE
      [] class = "IsAuthenticated" -> is_authenticated(u)
      [] class = "IsAdminUser" -> is_staff(u)

Permitted(action, u) == has_permission(permission_class(action), u)

\* The status of a refusal to an anonymous caller: it depends on the
\* authentication classes of the settings; books/tests.py line 39 expects 403.
AnonymousDenied == 403

\* The status of a refusal: 403 for an authenticated caller.
DeniedCode(u) == IF is_authenticated(u) THEN 403 ELSE AnonymousDenied

\* The answer to a request on the book API that the permission check refused.
Denied(action, u) == Answer("api", action, u, "denied", DeniedCode(u))

\* Every request in hand has overlapped another request.
Overlapped(ps) ==
    [q \in Workers |->
        IF ps[q].pc = "idle" THEN ps[q] ELSE [ps[q] EXCEPT !.clean = FALSE]]

\* The worker answers and is free again.
Finish(p, outcome) ==
    /\ response' = Answer(procs[p].via, "toggle_favorite", procs[p].user,
                          outcome.status, outcome.code)
    /\ last' = [user |-> procs[p].user, book |-> procs[p].book,
                before |-> procs[p].before, orig |-> procs[p].orig,
                clean |-> procs[p].clean]
    /\ procs' = [procs EXCEPT ![p] = IdleWorker]

\* The worker goes on with the next statement.
Proceed(p, label, row) ==
    /\ procs' = [procs EXCEPT ![p].pc = label, ![p].row = row]
    /\ UNCHANGED <<response, last>>

\* A toggle request arrives at one of the entry points: @login_required (eco/views.py line 86) or
\* IsAuthenticated (books/views.py lines 149-151), then get_object_or_404 /
\* get_object (eco/views.py line 92, books/views.py line 243).
ToggleBegin(p, vias, budget) ==
    /\ procs[p].pc = "idle"
    /\ started < budget
    /\ started' = started + 1
    /\ \E via \in vias, u \in Users, b \in RequestIds :
         IF via = "api" /\ ~Permitted("toggle_favorite", u)
         THEN /\ response' = Denied("toggle_favorite", u)
              /\ UNCHANGED <<procs, last>>
         ELSE IF via = "web" /\ ~is_authenticated(u)
         THEN /\ response' = Answer("web", "toggle_favorite", u, "login", 302)
              /\ UNCHANGED <<procs, last>>
         ELSE IF b \notin DOMAIN catalog
         THEN /\ response' = Answer(via, "toggle_favorite", u, "not found", 404)
              /\ UNCHANGED <<procs, last>>
         ELSE /\ procs' =
                   [Overlapped(procs) EXCEPT ![p] =
                       [pc |-> "get", via |-> via, user |-> u, book |-> b,
                        n |-> started + 1, row |-> 0,
                        clean |-> \A q \in Workers : procs[q].pc = "idle",
                        before |-> Pairs(favorites),
                        orig |-> IF /\ \A q \in Workers : procs[q].pc = "idle"
                                    /\ last.clean
                                    /\ last.user = u
                                    /\ last.book = b
                                 THEN last.before
                                 ELSE NoSet]]
              /\ UNCHANGED <<response, last>>
    /\ UNCHANGED <<favorites, catalog>>
    /\ UNCHANGED record

\* get_or_create, first statement: SELECT the row of (user, book).
ToggleGet(p) ==
    /\ procs[p].pc = "get"
    /\ IF \E r \in favorites : r.user = procs[p].user /\ r.book = procs[p].book
       THEN \E r \in favorites :
               /\ r.user = procs[p].user
               /\ r.book = procs[p].book
               /\ Proceed(p, "delete", r.id)
       ELSE Proceed(p, "insert", 0)
    /\ UNCHANGED <<favorites, catalog, started>>
    /\ UNCHANGED record

\* get_or_create, second statement: INSERT the row. A row for the pair or a
\* book that is gone makes the database raise IntegrityError; the first is
\* caught and leads to the second SELECT, which finds nothing in the second
\* case, so that the error leaves the view.
ToggleInsert(p) ==
    /\ procs[p].pc = "insert"
    /\ IF procs[p].book \notin DOMAIN catalog
       THEN /\ Finish(p, ServerError(procs[p].via))
            /\ UNCHANGED favorites
       ELSE IF UniqueViolation(favorites, procs[p].user, procs[p].book)
       THEN /\ Proceed(p, "reget", 0)
            /\ UNCHANGED favorites
       ELSE /\ favorites' =
                  favorites \cup {Row(procs[p].n, procs[p].user, procs[p].book)}
            /\ Finish(p, Added(procs[p].via))
    /\ UNCHANGED <<catalog, started>>
    /\ UNCHANGED record

\* get_or_create, third statement: SELECT again after the IntegrityError; if
\* the row is gone by now the IntegrityError is raised again.
ToggleReget(p) ==
    /\ procs[p].pc = "reget"
    /\ IF \E r \in favorites : r.user = procs[p].user /\ r.book = procs[p].book
       THEN \E r \in favorites :
               /\ r.user = procs[p].user
               /\ r.book = procs[p].book
               /\ Proceed(p, "delete", r.id)
       ELSE Finish(p, ServerError(procs[p].via))
    /\ UNCHANGED <<favorites, catalog, started>>
    /\ UNCHANGED record

\* books/views.py lines 249-257, eco/views.py lines 96-98: not created, so
\* favorite_item.delete() deletes the row by its primary key (nothing if it is
\* gone already) and the request answers "removed".
ToggleDelete(p) ==
    /\ procs[p].pc = "delete"
    /\ favorites' = {r \in favorites : r.id # procs[p].row}
    /\ Finish(p, Removed(procs[p].via))
    /\ UNCHANGED <<catalog, started>>
    /\ UNCHANGED record

\* The primary key of the next book.
NextBookId ==
    IF DOMAIN catalog = {} THEN 1
    ELSE (CHOOSE id \in DOMAIN catalog : \A j \in DOMAIN catalog : j <= id) + 1

\* A request on the book API (BookViewSet, books/views.py lines 101-156) that
\* reads: list, retrieve and my_favorites (lines 158-196).
ApiRead(action) ==
    /\ \E u \in Users, id \in IF action = "retrieve" THEN RequestIds ELSE {0} :
         response' =
            IF ~Permitted(action, u) THEN Denied(action, u)
            ELSE IF action = "retrieve" /\ id \notin DOMAIN catalog
            THEN Answer("api", action, u, "not found", 404)
            ELSE Answer("api", action, u, "ok", 200)
    /\ UNCHANGED <<favorites, procs, catalog, started, last>>
    /\ UNCHANGED record

\* POST on the book API: the serializer validates the data and saves a new
\* Book (whose save() is the one modelled above).
ApiCreate ==
    /\ \E u \in Users, valid \in BOOLEAN :
         IF ~Permitted("create", u)
         THEN /\ response' = Denied("create", u)
              /\ UNCHANGED catalog
         ELSE IF ~valid
         THEN /\ response' = Answer("api", "create", u, "invalid", 400)
              /\ UNCHANGED catalog
         ELSE /\ NextBookId <= MaxBooks
              /\ catalog' = [id \in DOMAIN catalog \cup {NextBookId} |->
                                IF id \in DOMAIN catalog THEN catalog[id] ELSE 0]
              /\ response' = Answer("api", "create", u, "created", 201)
    /\ UNCHANGED <<favorites, procs, started, last>>
    /\ UNCHANGED record

\* PUT (update) or PATCH (partial_update) on the book API.
ApiUpdate(action) ==
    /\ \E u \in Users, id \in RequestIds, valid \in BOOLEAN :
         IF ~Permitted(action, u)
         THEN /\ response' = Denied(action, u)
              /\ UNCHANGED catalog
         ELSE IF id \notin DOMAIN catalog
         THEN /\ response' = Answer("api", action, u, "not found", 404)
              /\ UNCHANGED catalog
         ELSE IF ~valid
         THEN /\ response' = Answer("api", action, u, "invalid", 400)
              /\ UNCHANGED catalog
         ELSE /\ catalog[id] < MaxUpdates
              /\ catalog' = [catalog EXCEPT ![id] = @ + 1]
              /\ response' = Answer("api", action, u, "ok", 200)
    /\ UNCHANGED <<favorites, procs, started, last>>
    /\ UNCHANGED record

\* DELETE on the book API: the book goes, and with it its favorites
\* (on_delete=models.CASCADE, models.py lines 494-496).
ApiDestroy ==
    /\ \E u \in Users, id \in RequestIds :
         IF ~Permitted("destroy", u)
         THEN /\ response' = Denied("destroy", u)
              /\ UNCHANGED <<favorites, procs, catalog, last>>
         ELSE IF id \notin DOMAIN catalog
         THEN /\ response' = Answer("api", "destroy", u, "not found", 404)
              /\ UNCHANGED <<favorites, procs, catalog, last>>
         ELSE /\ catalog' = [j \in DOMAIN catalog \ {id} |-> catalog[j]]
              /\ favorites' = {r \in favorites : r.book # id}
              /\ procs' = Overlapped(procs)
              /\ last' = NoLast
              /\ response' = Answer("api", "destroy", u, "deleted", 204)
    /\ UNCHANGED started
    /\ UNCHANGED record

\* The web layer starts at rest; the record of the first part stays so.
WebInit ==
    /\ RecordAtRest({CHOOSE b \in InitBooks : TRUE})
    /\ WebAtRest

\* The favorites under toggle requests alone.
FavNext ==
    \/ \E p \in Workers : ToggleBegin(p, {"api", "web"}, MaxStarted)
    \/ \E p \in Workers : ToggleGet(p)
    \/ \E p \in Workers : ToggleInsert(p)
    \/ \E p \in Workers : ToggleReget(p)
    \/ \E p \in Workers : ToggleDelete(p)

FavSpec == WebInit /\ [][FavNext]_vars

\* The whole book API.
ApiNext ==
    \/ \E p \in Workers : ToggleBegin(p, {"api"}, MaxApiToggles)
    \/ \E p \in Workers : ToggleGet(p)
    \/ \E p \in Workers : ToggleInsert(p)
    \/ \E p \in Workers : ToggleReget(p)
    \/ \E p \in Workers : ToggleDelete(p)
    \/ ApiRead("list")
    \/ ApiRead("retrieve")
    \/ ApiRead("my_favorites")
    \/ ApiCreate
    \/ ApiUpdate("update")
    \/ ApiUpdate("partial_update")
    \/ ApiDestroy

ApiSpec == WebInit /\ [][ApiNext]_vars

-----------------------------------------------------------------------------
(* Properties. *)

\* A top-level resolver call has just returned to its caller.
JustReturned ==
    /\ depth = 0
    /\ pc \in {"finalize", "admin_return"}
    /\ inp.step \notin {"save", "admin_return"}

\* A record with every field empty.
EmptyBook ==
    [title |-> "", author |-> "", description |-> "", category |-> "",
     publication_year |-> 0, external_id |-> <<>>, cover_url |-> ""]

\* C1: after any save the five required fields of the written row are
\* non-empty; the write step turns exactly the fields that are still empty into
\* their sentinels ("Sin título", "Autor desconocido", "Sin descripción
\* disponible", "General", 2000) and writes the record as it then is; a record
\* that started with every field empty is written as the five sentinels with
\* external_id and cover_url still empty.
SaveLeavesNoFieldEmpty ==
    /\ [](db # NoRow =>
            /\ db.title # "" /\ db.author # "" /\ db.description # ""
            /\ db.category # "" /\ db.publication_year # 0)
    /\ [][pc = "finalize" =>
            /\ db' = book'
            /\ book'.title = (IF book.title = "" THEN "Sin título" ELSE book.title)
            /\ book'.author =
                 (IF book.author = "" THEN "Autor desconocido" ELSE book.author)
            /\ book'.description =
                 (IF book.description = "" THEN "Sin descripción disponible"
                  ELSE book.description)
            /\ book'.category =
                 (IF book.category = "" THEN "General" ELSE book.category)
            /\ book'.publication_year =
                 (IF book.publication_year = 0 THEN 2000
                  ELSE book.publication_year)
            /\ book'.external_id = book.external_id
            /\ book'.cover_url = book.cover_url]_vars
    /\ [](db # NoRow /\ pre = EmptyBook =>
            db = [title |-> "Sin título", author |-> "Autor desconocido",
                  description |-> "Sin descripción disponible",
                  category |-> "General", publication_year |-> 2000,
                  external_id |-> <<>>, cover_url |-> ""])

\* C1 witness: a record with an identifier and no year was saved while every
\* lookup failed, and the row holds the year 2000.
SaveLeavesNoFieldEmptyWitness ==
    /\ pc = "idle"
    /\ inp.step = "write"
    /\ pre.external_id # <<>>
    /\ pre.publication_year = 0
    /\ ~ret
    /\ db.publication_year = 2000
    /\ db.author = pre.author

\* C2: a resolver call ends by returning a boolean to its caller, whatever the
\* requests answered; no exception leaves it, and a step that raised ends the
\* call with False.
ResolveReturnsBoolean ==
    /\ [](pc # "raised")
    /\ [][depth > 0 /\ depth' = 0 =>
            /\ pc' \in {"finalize", "admin_return"}
            /\ ret' \in BOOLEAN
            /\ (inp'.exc => ret' = FALSE)]_vars

\* C2 witness: the merge raised on a malformed work document and the admin
\* action got False back.
ResolveReturnsBooleanWitness ==
    /\ pc = "admin_return"
    /\ inp.step = "merge"
    /\ inp.exc
    /\ ret = FALSE

\* The most requests one resolver frame can issue: edition, linked work, two
\* direct lookups, three authors, three listings, one search.
MaxRequests == 4 + 3 + 3 + 1

\* C3: a save terminates and writes the record: a resolver frame issues at
\* most MaxRequests requests, the recursion is no deeper than the recursion
\* limit, and every save that has begun reaches the write of the record.
SaveTerminates ==
    /\ [](depth <= RecursionLimit /\ searches <= RecursionLimit
          /\ Len(log) <= MaxRequests)
    /\ (caller = "save") ~> (pc = "idle" /\ inp.step = "write" /\ db = book)

\* C3 witness: the record was written after a resolver call that searched as
\* often as the recursion limit allows and returned False.
SaveTerminatesWitness ==
    /\ pc = "idle"
    /\ inp.step = "write"
    /\ db = book
    /\ searches = RecursionLimit
    /\ ~ret

\* C4: when a call on a record with an identifier has obtained no work data
\* (control is at line 376 of a call entered with an identifier), the call
\* ends there with False and the record as it was at the call's entry, whatever
\* its title.
NoWorkDataLeavesRecord ==
    [][pc = "fetch_search" /\ entry.external_id # <<>> =>
          depth' = 0 /\ ret' = FALSE /\ book' = entry]_vars

\* The six fields of record b that hold a real value: non-empty and not the
\* sentinel.
RealFields(b) ==
    {f \in {"title", "author", "description", "category"} :
        b[f] # "" /\ b[f] \notin {SinTitulo, AutorDesconocido, SinDescripcion, General}}
    \cup (IF b.publication_year \notin {0, DefaultYear}
          THEN {"publication_year"} ELSE {})
    \cup (IF b.cover_url # "" THEN {"cover_url"} ELSE {})

\* C5: a field that holds a real value before a resolver call holds the same
\* value when the call has returned, by identifier and by title.
RealFieldsKept ==
    JustReturned => \A f \in RealFields(pre) : book[f] = pre[f]

\* C6: a top-level call on a record with no identifier and a real title has
\* issued exactly one search request when it returns, and its recursive
\* invocation never reaches the search.
OneSearchPerCall ==
    /\ (JustReturned /\ pre.external_id = <<>> /\ HasRealTitle(pre))
          => searches = 1
    /\ depth > 1 => pc # "fetch_search"

\* C7: on a record with no identifier and a real title, a search request that
\* failed, answered non-200 or held no result ends the call with False and
\* the record as it was before the call.
FailedSearchLeavesRecord ==
    [][(pc = "fetch_search" /\ entry.external_id = <<>> /\ ~inp'.ok) =>
          /\ depth' = 0
          /\ ret' = FALSE
          /\ book' = entry
          /\ book' = pre]_vars

\* C7 witness: the admin action ran on a record with no identifier and a real
\* title, the search yielded nothing and the call returned False.
FailedSearchLeavesRecordWitness ==
    /\ pc = "admin_return"
    /\ inp.step = "search"
    /\ ~inp.ok
    /\ pre.external_id = <<>>
    /\ HasRealTitle(pre)
    /\ searches = 1
    /\ ~ret
    /\ book = pre

\* C8: a resolver call that returned False changed no field (equivalently, a
\* call that changed a field returned True).
FalseMeansUnchanged ==
    JustReturned => (book # pre => ret = TRUE) /\ (ret = FALSE => book = pre)

\* The steps of the merge (lines 154-373).
MergePcs ==
    {"merge", "fetch_author", "merge_description", "fetch_listing_desc",
     "merge_category", "fetch_listing_year", "merge_cover",
     "fetch_listing_cover"}

\* Values that only the fetched edition document can supply.
EditionValues ==
    {"Edition title", "Edition description", "Edition subject 1",
     "Edition subject 1, Edition subject 2", CoverUrl(111)}

\* The call runs on an edition identifier, its edition request yielded no
\* document, and the merge is under way on work data of a direct lookup.
WorkOnlyMerge ==
    /\ depth > 0
    /\ pc \in MergePcs
    /\ is_edition(entry.external_id)
    /\ ~edition_data
    /\ log # <<>>
    /\ log[1].req = "edition"

\* A direct lookup that succeeds after the edition request failed starts the
\* merge on its work data, and no step of that merge has or uses edition data.
WorkOnlyMergeSteps ==
    /\ (/\ pc \in {"fetch_work_direct", "fetch_work_raw"}
        /\ is_edition(entry.external_id)
        /\ ~edition_data
        /\ inp'.ok)
          => pc' = "merge" /\ work_data' \in {"direct", "raw"} /\ ~edition_data'
    /\ WorkOnlyMerge =>
          /\ ~edition_data'
          /\ \A f \in {"title", "description", "category", "cover_url"} :
                book'[f] # book[f] => book'[f] \notin EditionValues

NeitherId ==
    /\ depth > 0
    /\ pc # "resolve"
    /\ entry.external_id # <<>>
    /\ ~is_edition(entry.external_id)
    /\ ~is_work(entry.external_id)

\* OL{id}W for an identifier that holds neither M nor W.
Reformatted(external_id) ==
    <<"O", "L">> \o RemoveAll(external_id, <<"O", "L">>) \o <<"W">>

\* The order of the lookups for an identifier that holds neither letter: the
\* reformatted lookup comes first, the raw lookup second and only after the
\* reformatted lookup failed.
NeitherIdOrder ==
    NeitherId =>
       /\ pc = "fetch_work_direct" => log = <<>>
       /\ log # <<>> =>
             log[1] = Req("work_direct", Reformatted(entry.external_id))
       /\ pc = "fetch_work_raw" =>
             Len(log) = 1 /\ inp.step = "work_direct" /\ ~inp.ok
       /\ \A i \in 1..Len(log) :
             log[i].req = "work_raw" =>
                i = 2 /\ log[i].id = entry.external_id
       /\ \A i \in 1..Len(log) : log[i].req \notin {"edition", "linked_work"}

\* C10 as stated: for an identifier with neither letter the reformatted lookup
\* and then the raw lookup are both issued before the by-id path gives up, and
\* a direct lookup is issued only while work data is missing.
DirectLookupOnlyIfMissing ==
    /\ NeitherIdOrder
    /\ (NeitherId /\ pc = "fetch_search") =>
          Len(log) = 2 /\ log[2].req = "work_raw"
    /\ pc = "fetch_work_direct" => work_data = "none"

\* C10 amended: for an identifier with neither letter the reformatted lookup
\* is issued first and the raw lookup only after it failed; the by-id path
\* gives up after the raw lookup, or at once when the reformatted lookup
\* answered an empty document; a direct lookup is issued only while work data
\* is missing or when the identifier is classified as a work.
DirectLookupIfMissingOrWork ==
    /\ NeitherIdOrder
    /\ (NeitherId /\ pc = "fetch_search") =>
          \/ Len(log) = 2 /\ log[2].req = "work_raw"
          \/ Len(log) = 1 /\ inp.step = "work_direct" /\ ~inp.ok
    /\ pc = "fetch_work_direct" =>
          work_data = "none" \/ is_work(book.external_id)

\* C10 witness: both lookups of identifier 123 failed, in order, and the call
\* went on to line 376.
DirectLookupWitness ==
    /\ NeitherId
    /\ pc = "fetch_search"
    /\ log = <<Req("work_direct", <<"O", "L", "1", "2", "3", "W">>),
               Req("work_raw", <<"1", "2", "3">>)>>

\* A save begins with this step: book.save() called from outside, or by the
\* admin action after the resolver returned True.
SaveStarts ==
    \/ pc = "idle" /\ inp'.step = "save"
    \/ pc = "admin_return" /\ ret

\* Some required field of b is blank.
AnyBlank(b) ==
    \E f \in {"title", "author", "description", "category"} : b[f] = ""
    \/ b.publication_year = 0

\* C11: a save calls the resolver exactly when external_id is non-empty and a
\* required field is blank at that moment, and otherwise goes straight to the
\* defaults without a request; the row is written only by the write step, which
\* runs after the resolver call has returned.
SaveCallsResolverIff ==
    /\ [][SaveStarts =>
            IF book.external_id # <<>> /\ AnyBlank(book)
            THEN pc' = "resolve" /\ caller' = "save" /\ depth' = 1
                 /\ book' = book /\ db' = db
            ELSE pc' = "finalize" /\ depth' = 0 /\ log' = log
                 /\ book' = book /\ db' = db]_vars
    /\ [][db' # db => pc = "finalize" /\ depth = 0 /\ pc' = "idle"]_vars
    /\ [][depth > 0 => db' = db]_vars

\* C11 witness: a save of a record with an identifier and no year has called
\* the resolver, and nothing is written yet.
SaveCallsResolverWitness ==
    /\ pc = "resolve"
    /\ caller = "save"
    /\ inp.step = "save"
    /\ book.publication_year = 0
    /\ book.title # ""
    /\ db = NoRow

\* C12 as stated: after a save whose resolver call changed nothing and left
\* required fields to the defaults, the next save of the same record calls
\* the resolver again.
NextSaveFetchesAgain ==
    [][(/\ pc = "idle"
        /\ inp.step = "write"
        /\ ~ret
        /\ pre.external_id # <<>>
        /\ AnyBlank(pre)
        /\ db = book
        /\ inp'.step = "save") => pc' = "resolve"]_vars

\* C12 amended: a save leaves no required field blank, so the next save of the
\* record as written calls the resolver never, whether the fetches of the
\* first save failed or not, and issues no request.
NextSaveDoesNotFetch ==
    [][(/\ pc = "idle"
        /\ db # NoRow
        /\ db = book
        /\ inp'.step = "save") =>
            pc' = "finalize" /\ depth' = 0 /\ log' = log /\ book' = book]_vars

\* C12 witness: the save of a record with an identifier and no year failed
\* to fetch and wrote the year 2000; a second save has begun and is at the
\* defaults, with no resolver call.
NextSaveDoesNotFetchWitness ==
    /\ pc = "finalize"
    /\ inp.step = "save"
    /\ db # NoRow
    /\ db = book
    /\ ~ret
    /\ pre.external_id # <<>>
    /\ pre.publication_year = 0
    /\ book.publication_year = 2000

\* The author requests in log.
AuthorRequests == SelectSeq(log, LAMBDA q : q.req = "author")

EditionCoverWins ==
    [][(pc = "merge_cover" /\ book.cover_url = "" /\ inp'.ok) =>
          /\ edition_data
          /\ book'.cover_url = "https://covers.openlibrary.org/b/id/111-L.jpg"
          /\ log' = log
          /\ pc' # "fetch_listing_cover"
          /\ depth' = 0
          /\ ret' = TRUE]_vars

\* C14 witness: the call returned True from the cover step with the cover of
\* the edition.
EditionCoverWinsWitness ==
    /\ JustReturned
    /\ inp.step = "cover"
    /\ inp.ok
    /\ pre.cover_url = ""
    /\ book.cover_url = CoverUrl(111)
    /\ ret

\* The description may be filled: it is empty or the sentinel.
DescriptionOpen(b) == b.description \in {"", "Sin descripción disponible"}

EditionYearStands ==
    [][/\ (pc = "merge_category" /\ inp'.ok /\ ~inp'.exc) =>
             pc' # "fetch_listing_year"
       /\ (pc = "fetch_listing_year" /\ inp.step = "category" /\ inp.ok) =>
             book'.publication_year = book.publication_year]_vars

\* C15: get_cover_url returns the record's cover_url without any request when
\* it is set; otherwise it issues at most one search request and returns the
\* URL of the top match's cover id, or None; it raises nothing, changes no
\* field and writes nothing to the database.
CoverUrlShown ==
    /\ [][pc = "idle" /\ inp'.step = "get_cover" =>
            /\ book' = book /\ db' = db
            /\ IF book.cover_url # ""
               THEN /\ pc' = "idle"
                    /\ shown' = Shown(book.cover_url, 0)
               ELSE /\ pc' = "cover_search"
                    /\ shown'.requests = 0]_vars
    /\ [][pc = "cover_search" =>
            /\ book' = book /\ db' = db
            /\ pc' = "idle"
            /\ shown'.requests = 1
            /\ shown'.value \in {None} \cup {CoverUrl(i) : i \in CoverIds \ {0}}
            /\ (shown'.value # None) = inp'.ok]_vars

\* C15 witness: a record without a cover was shown, the search raised and the
\* call returned None after its one request.
CoverUrlShownWitness ==
    /\ pc = "idle"
    /\ inp.step = "cover_search"
    /\ inp.exc
    /\ book.cover_url = ""
    /\ shown = Shown(None, 1)

\* C16: under any interleaving of toggle requests, through the API action
\* or the web view, by any users on any books, the stored favorites never
\* hold two rows for the same (user, book) pair.
FavoritesUnique ==
    \A r1, r2 \in favorites :
        (r1.user = r2.user /\ r1.book = r2.book) => r1 = r2

\* C16 witness: two requests for the same pair both missed the row, one
\* inserted it and the INSERT of the other was refused.
FavoritesUniqueWitness ==
    \E p \in Workers :
        /\ procs[p].pc = "reget"
        /\ <<procs[p].user, procs[p].book>> \in Pairs(favorites)

\* The worker that answers in this step.
Answers(p) == procs[p].pc # "idle" /\ procs'[p].pc = "idle"

CatalogWrites == {"create", "update", "partial_update", "destroy"}

\* C18: on the book API list and retrieve are never refused; create, update,
\* partial update and delete are refused with 403 to everyone but an
\* administrator, leave the catalog as it was when refused, and only an
\* administrator's request changes the catalog; my_favorites and
\* toggle_favorite are refused to anonymous callers and to them only.
ApiPermissions ==
    /\ [][(response' # response /\ response'.via = "api") =>
            LET a == response'.action
                u == response'.user
                refused == response'.status = "denied"
            IN /\ refused => response'.code = 403 /\ UNCHANGED <<catalog, favorites, procs>>
               /\ a \in {"list", "retrieve"} => ~refused
               /\ a \in CatalogWrites => (refused = (u # "root"))
               /\ a \in {"my_favorites", "toggle_favorite"} =>
                     (refused = (u = "anon"))]_vars
    /\ [][catalog' # catalog =>
            /\ response'.via = "api"
            /\ response'.action \in CatalogWrites
            /\ response'.user = "root"
            /\ response'.status # "denied"]_vars
    /\ [](\A p \in Workers : procs[p].pc # "idle" => procs[p].user # "anon")
    /\ [](\A r \in favorites : r.user # "anon")

\* C18 witness: after an administrator updated a book, a registered user's
\* create was refused with 403.
ApiPermissionsWitness ==
    /\ \E id \in DOMAIN catalog : catalog[id] > 0
    /\ response = Answer("api", "create", "ana", "denied", 403)

\* The positions of the listing entries that hold a positive cover id.
Covered(entries) ==
    {i \in 1..Len(entries) :
        \E k \in 1..Len(entries[i].covers) : entries[i].covers[k] > 0}

\* The year extracted from an entry's publish_date, 0 when there is none.
EntryYear(e) ==
    IF e.publish_date # <<>> /\ YearMatch(e.publish_date) # 0
    THEN YearOf(e.publish_date)
    ELSE 0

\* The first positive id of a list of cover ids that holds one.
FirstPositive(covers) ==
    covers[CHOOSE k \in 1..Len(covers) :
              /\ covers[k] > 0
              /\ \A j \in 1..(k - 1) : covers[j] <= 0]

\* The entry with the greatest year among those with a positive cover id,
\* the earliest of them among equal years.
NewestCovered(entries) ==
    CHOOSE i \in Covered(entries) :
        \A j \in Covered(entries) :
            \/ EntryYear(entries[j]) < EntryYear(entries[i])
            \/ EntryYear(entries[j]) = EntryYear(entries[i]) /\ i <= j

\* C21: with cover_url empty and no positive cover id from the edition (or
\* no edition data), the resolver requests the listing and takes the first
\* positive cover id of the entry with the greatest extracted year among the
\* entries that have one (unknown year as 0, earliest entry among equal
\* years); if the listing fails or holds no cover, the first positive cover
\* id of the work; if there is none cover_url stays empty.
ListingCoverNewest ==
    [][/\ (pc = "merge_cover" /\ book.cover_url = "" /\ ~inp'.ok) =>
            /\ pc' = "fetch_listing_cover"
            /\ book'.cover_url = ""
       /\ pc = "fetch_listing_cover" =>
            LET entries == inp'.given.entries
                covers == inp'.given.covers
            IN  /\ book.cover_url = ""
                /\ ~inp'.ok => entries = <<>>
                /\ book'.cover_url =
                      IF Covered(entries) # {}
                      THEN CoverUrl(FirstPositive(
                               entries[NewestCovered(entries)].covers))
                      ELSE IF \E k \in 1..Len(covers) : covers[k] > 0
                      THEN CoverUrl(FirstPositive(covers))
                      ELSE ""]_vars

\* C21 witness: the listing held an older edition before a newer one, both
\* with a cover, and the cover of the newer one was taken.
ListingCoverNewestWitness ==
    /\ JustReturned
    /\ inp.step = "listing_cover"
    /\ Len(inp.given.entries) = 2
    /\ EntryYear(inp.given.entries[1]) < EntryYear(inp.given.entries[2])
    /\ book.cover_url = CoverUrl(222)

\* The first two elements of a non-empty list of strings joined by ", ".
JoinTwo(xs) == IF Len(xs) = 1 THEN xs[1] ELSE xs[1] \o ", " \o xs[2]

\* C22: with the category empty or "General", a by-id resolve that obtained
\* work data sets it to the first two work subjects joined by ", " if the
\* work has subjects, else to the first two edition subjects if there is
\* edition data with subjects, else to the first two subject_places of the
\* work, and leaves it unchanged if all three are empty (the subjects being
\* strings); the later steps of the call do not change it, and a category
\* holding another value is not touched.
CategoryByPrecedence ==
    [][/\ (pc = "merge_category" /\ ~inp'.exc) =>
            LET g == inp'.given
            IN  book'.category =
                  IF ~(book.category \in {"", "General"}) THEN book.category
                  ELSE IF g.subjects # <<>> THEN JoinTwo(g.subjects)
                  ELSE IF edition_data /\ g.edition_subjects # <<>>
                  THEN JoinTwo(g.edition_subjects)
                  ELSE IF g.subject_places # <<>> THEN JoinTwo(g.subject_places)
                  ELSE book.category
       /\ pc \in {"fetch_listing_year", "merge_cover", "fetch_listing_cover"} =>
            book'.category = book.category]_vars

\* C22 witness: the work had no subjects, the edition had three, and the
\* call returned with the first two of them as the category.
CategoryByPrecedenceWitness ==
    /\ JustReturned
    /\ ret
    /\ entry.category \in {"", "General"}
    /\ book.category = "Edition subject 1, Edition subject 2"

\* The number of requests of the given kinds issued by the innermost
\* resolver call so far.
Issued(kinds) == Len(SelectSeq(log, LAMBDA q : q.req \in kinds))

\* C23 as stated: one by-id resolution issues at most one edition fetch, at
\* most 3 author-name fetches and at most two editions-listing fetches.
AtMostTwoListings ==
    /\ Issued({"edition"}) <= 1
    /\ Issued({"author"}) <= 3
    /\ Issued({"listing_limit_1", "listing_limit_50"}) <= 2

\* C23 amended: one by-id resolution issues at most one edition fetch, at
\* most 3 author-name fetches and at most three editions-listing fetches:
\* one with limit 1 for the description, only without edition data, and two
\* with limit 50, for the year and for the cover.
AtMostThreeListings ==
    /\ Issued({"edition"}) <= 1
    /\ Issued({"author"}) <= 3
    /\ Issued({"listing_limit_1"}) <= (IF edition_data THEN 0 ELSE 1)
    /\ Issued({"listing_limit_50"}) <= 2

\* C23 witness: a resolve of a work identifier returned after three
\* requests of the editions listing.
AtMostThreeListingsWitness ==
    /\ JustReturned
    /\ ret
    /\ Issued({"listing_limit_1", "listing_limit_50"}) = 3

\* C24: the two paths exclude each other in every call: a call that issued
\* a search request was entered with no external_id and a real title (so a
\* call entered with an external_id issues none), and a call entered with
\* neither returns False without a request and with the record as it was.
PathsExclusive ==
    /\ Issued({"search"}) > 0 =>
          entry.external_id = <<>> /\ HasRealTitle(entry)
    /\ (JustReturned /\ entry.external_id = <<>> /\ ~HasRealTitle(entry)) =>
          ~ret /\ book = entry /\ log = <<>>

\* The merge starts on the work data the edition linked to, in a call whose
\* identifier is classified both as an edition and as a work.
LinkedMerge ==
    /\ depth > 0
    /\ pc = "merge"
    /\ work_data = "linked"
    /\ is_edition(entry.external_id)
    /\ is_work(entry.external_id)

\* A step of the merge ends the call.
MergeReturns == depth > 0 /\ pc \in MergePcs /\ depth' = 0

\* A direct work lookup is made while the linked work data is in hand.
LinkedLookup ==
    /\ pc \in {"fetch_work_direct", "fetch_work_raw"}
    /\ work_data = "linked"

RealTitleKept ==
    /\ [][HasRealTitle(book) => book'.title = book.title]_vars
    /\ [][(HasRealTitle(book) /\ db' # db) => db'.title = book.title]_vars
    /\ [](JustReturned /\ ret => book.title # "")

\* C26 witness: a record with a real title and no identifier was resolved by
\* title, the search result was applied, the recursive invocation merged by
\* identifier and returned True, and the title is the one the record had.
RealTitleKeptWitness ==
    /\ JustReturned
    /\ ret
    /\ pre.external_id = <<>>
    /\ pre.title = "My title"
    /\ searches = 1
    /\ book.external_id # <<>>
    /\ book.author # pre.author
    /\ log # <<>>
    /\ log[1].req = "work_direct"
    /\ book.title = "My title"

====
